---------------------------- MODULE Spec2Model ----------------------------
(***************************************************************************)
(* CoordinateConverter (src/main/HokuyoUtils/scip/CoordinateConverter.ts). *)
(*                                                                         *)
(* Lengths are whole numbers of one grid step.  Coordinates handed to      *)
(* bunch and normalize are pairs of integers; quotients (a normalised      *)
(* coordinate, a centroid, a converted coordinate) are exact fractions     *)
(* <<n, d>> in lowest terms with d > 0.  <<0, 0>> stands for NaN and       *)
(* <<1, 0>>, <<-1, 0>> for +Infinity, -Infinity.  Rounding of IEEE doubles *)
(* is not modelled.                                                        *)
(***************************************************************************)
EXTENDS Integers, Sequences, FiniteSets, TLC

VARIABLES
    options,                  \* constructor argument: placement, offset, area
    sensorAxisRotationMatrix, \* readonly, computed by the constructor
    bunchEps,                 \* readonly
    bunchPrecisionCount,      \* readonly
    bunchBuffer,              \* private bunchBuffer: XY[]
    prevCoord,                \* private prevCoord: XY
    call,                     \* the last call made on the object and its arguments
    ret,                      \* the value that call returned
    prevLength,               \* bunchBuffer.length when that call began
    hist,                     \* the bunch calls of the sweep being fed (SpecSweep)
    variant                   \* a second converter running bunchVariant (SpecVariant)

vars == <<options, sensorAxisRotationMatrix, bunchEps, bunchPrecisionCount,
          bunchBuffer, prevCoord, call, ret, prevLength, hist, variant>>

---------------------------------------------------------------------------
(* Bounds of the model *)

MaxCoord == 2       \* coordinates range over -MaxCoord..MaxCoord
MaxBuf == 3         \* bunch is not called when it would buffer more
MaxTotal == 3       \* datasLength ranges over 2..MaxTotal
MaxSize == 3        \* sides of the projection area in SpecArea
SweepLen == 5       \* samples in a sweep of SpecSweep

(* Number.MAX_SAFE_INTEGER is 2^53 - 1; TLC's integers are 32 bits wide, so
   the sentinel is 2^30: like the original it is farther than any bunchEps
   from every coordinate. *)
MAX_SAFE_INTEGER == 1073741824

\* The coordinates fed to the converter: the grid points on the two axes.
Points ==
    {<<x, 0>> : x \in (0 - MaxCoord)..MaxCoord} \cup
    {<<0, y>> : y \in (0 - MaxCoord)..MaxCoord}

DataPlaces == {"first", "middle", "last"}
SensorPlacements == {"top-left", "top-right", "bottom-left", "bottom-right"}
SensorCoordinates == {<<0, 0>>, <<-1, 1>>, <<2, -1>>}
ProjectionAreaSizes == {<<2, 2>>, <<3, 1>>}
BunchEpss == {1, 2}
PrecisionCounts == 0..(MaxBuf + 1)
Distances == {0, 1000}

null == <<>>

---------------------------------------------------------------------------
(* Arithmetic on fractions: the number type of the source *)

Abs(a) == IF a < 0 THEN 0 - a ELSE a

Sign(a) == IF a < 0 THEN 0 - 1 ELSE IF a = 0 THEN 0 ELSE 1

RECURSIVE GCD(_, _)
GCD(a, b) == IF b = 0 THEN a ELSE GCD(b, a % b)

\* n / d
Frac(n, d) ==
    IF d = 0 THEN <<Sign(n), 0>>
    ELSE LET g == GCD(Abs(n), Abs(d))
         IN  <<(Sign(d) * n) \div g, Abs(d) \div g>>

Num(i) == <<i, 1>>

IsFinite(a) == a[2] # 0

\* a / b
Quot(a, b) ==
    IF IsFinite(a) /\ IsFinite(b) THEN Frac(a[1] * b[2], a[2] * b[1])
    ELSE IF IsFinite(a) THEN (IF b[1] = 0 THEN <<0, 0>> ELSE Num(0))
    ELSE IF IsFinite(b) THEN <<a[1] * (IF b[1] < 0 THEN 0 - 1 ELSE 1), 0>>
    ELSE <<0, 0>>

\* a * b
Prod(a, b) ==
    IF IsFinite(a) /\ IsFinite(b) THEN Frac(a[1] * b[1], a[2] * b[2])
    ELSE <<Sign(a[1]) * Sign(b[1]), 0>>

\* a + b
Plus(a, b) ==
    IF IsFinite(a) /\ IsFinite(b) THEN Frac(a[1] * b[2] + b[1] * a[2], a[2] * b[2])
    ELSE IF IsFinite(a) THEN b
    ELSE IF IsFinite(b) THEN a
    ELSE IF a = b THEN a ELSE <<0, 0>>

\* -a
Neg(a) == <<0 - a[1], a[2]>>

\* a <= b
Leq(a, b) ==
    IF a = <<0, 0>> \/ b = <<0, 0>> THEN FALSE
    ELSE IF IsFinite(a) /\ IsFinite(b) THEN a[1] * b[2] <= b[1] * a[2]
    ELSE IF IsFinite(a) THEN b[1] > 0
    ELSE IF IsFinite(b) THEN a[1] < 0
    ELSE a[1] <= b[1]

---------------------------------------------------------------------------
(* Constructor *)

\* Math.cos and Math.sin at the quarter turns and at the sweep angles of the
\* model (multiples of 15 degrees), the irrational ones to four decimals.
Cos(deg) ==
    CASE deg % 360 = 0   -> Num(1)
      [] deg % 360 = 15  -> Frac(9659, 10000)
      [] deg % 360 = 30  -> Frac(8660, 10000)
      [] deg % 360 = 45  -> Frac(7071, 10000)
      [] deg % 360 = 60  -> Frac(1, 2)
      [] deg % 360 = 75  -> Frac(2588, 10000)
      [] deg % 360 = 90  -> Num(0)
      [] deg % 360 = 180 -> Num(0 - 1)
      [] deg % 360 = 270 -> Num(0)

Sin(deg) ==
    CASE deg % 360 = 0   -> Num(0)
      [] deg % 360 = 15  -> Frac(2588, 10000)
      [] deg % 360 = 30  -> Frac(1, 2)
      [] deg % 360 = 45  -> Frac(7071, 10000)
      [] deg % 360 = 60  -> Frac(8660, 10000)
      [] deg % 360 = 75  -> Frac(9659, 10000)
      [] deg % 360 = 90  -> Num(1)
      [] deg % 360 = 180 -> Num(0)
      [] deg % 360 = 270 -> Num(0 - 1)

\* mutant: the matrix of the opposite rotation (the signs of the sines swapped)
calcSensorAxisRotationMatrixClockwise(placement) ==
    LET angle == IF placement = "bottom-left" THEN 0
                 ELSE IF placement = "bottom-right" THEN 90
                 ELSE IF placement = "top-right" THEN 180
                 ELSE IF placement = "top-left" THEN 270
                 ELSE 0
        s == Sin(angle)
        c == Cos(angle)
    IN  [a11 |-> c, a12 |-> s, a21 |-> Neg(s), a22 |-> c]

calcSensorAxisRotationMatrix(placement) ==
    LET angle == IF placement = "bottom-left" THEN 0
                 ELSE IF placement = "bottom-right" THEN 90
                 ELSE IF placement = "top-right" THEN 180
                 ELSE IF placement = "top-left" THEN 270
                 ELSE 0
        s == Sin(angle)
        c == Cos(angle)
    IN  [a11 |-> c, a12 |-> Neg(s), a21 |-> s, a22 |-> c]

\* new CoordinateConverter({...o, bunchEps: eps, bunchPrecisionCount: count})
Construct(o, eps, count) ==
    /\ options = o
    /\ sensorAxisRotationMatrix = calcSensorAxisRotationMatrix(o.sensorPlacement)
    /\ bunchEps = eps
    /\ bunchPrecisionCount = count
    /\ bunchBuffer = <<>>
    /\ prevCoord = <<MAX_SAFE_INTEGER, MAX_SAFE_INTEGER>>
    /\ call = <<"new">>
    /\ ret = null
    /\ prevLength = 0
    /\ hist = <<>>
    /\ variant = [bunchBuffer |-> <<>>,
                  prevCoord |-> <<MAX_SAFE_INTEGER, MAX_SAFE_INTEGER>>,
                  result |-> null]

Options(placements, coordinates, sizes) ==
    [sensorPlacement : placements,
     sensorCoordinateFromCenter : coordinates,
     projectionAreaSize : sizes]

\* Spec: every method is called, on converters that differ in the area
Init ==
    \E o \in Options({"bottom-left"}, {<<0, 0>>}, ProjectionAreaSizes) :
        Construct(o, 1, 3)

\* SpecBunch: bunch on converters of every area, bunchEps and precision count
InitBunch ==
    \E o \in Options({"bottom-left"}, {<<0, 0>>}, ProjectionAreaSizes) :
        \E eps \in BunchEpss, count \in PrecisionCounts :
            Construct(o, eps, count)

\* SpecSweep: one sweep of SweepLen samples fed to a fresh converter
InitSweep ==
    \E o \in Options({"bottom-left"}, {<<0, 0>>}, ProjectionAreaSizes) :
        \E eps \in BunchEpss, count \in 1..SweepLen :
            Construct(o, eps, count)

\* SpecArea: normalize and inProjectionArea on areas of every size
InitArea ==
    \E o \in Options({"bottom-left"}, {<<0, 0>>}, (1..MaxSize) \X (1..MaxSize)) :
        Construct(o, 1, 3)

\* SpecConvert: convert on converters of every placement and sensor position
InitConvert ==
    \E o \in Options(SensorPlacements, SensorCoordinates, {<<2, 2>>}) :
        Construct(o, 1, 3)

---------------------------------------------------------------------------
(* Pure methods *)

sensorFov == 90

\* mutant: the sensor position added before the rotation instead of after it
convertRotatingSensor(distance, dataIndex, datasLength) ==
    LET meter == Frac(distance, 1000)
        angle == (dataIndex * sensorFov) \div (datasLength - 1)
        localCoord ==
            <<Plus(Num(options.sensorCoordinateFromCenter[1]), Prod(meter, Cos(angle))),
              Plus(Num(options.sensorCoordinateFromCenter[2]), Prod(meter, Sin(angle)))>>
        mat == sensorAxisRotationMatrix
    IN  <<Plus(Prod(mat.a11, localCoord[1]), Prod(mat.a12, localCoord[2])),
          Plus(Prod(mat.a21, localCoord[1]), Prod(mat.a22, localCoord[2]))>>

convert(distance, dataIndex, datasLength) ==
    LET meter == Frac(distance, 1000)
        angle == (dataIndex * sensorFov) \div (datasLength - 1)
        localCoord == <<Prod(meter, Cos(angle)), Prod(meter, Sin(angle))>>
        mat == sensorAxisRotationMatrix
        fixedAxisLocalCoord ==
            <<Plus(Prod(mat.a11, localCoord[1]), Prod(mat.a12, localCoord[2])),
              Plus(Prod(mat.a21, localCoord[1]), Prod(mat.a22, localCoord[2]))>>
    IN  <<Plus(Num(options.sensorCoordinateFromCenter[1]), fixedAxisLocalCoord[1]),
          Plus(Num(options.sensorCoordinateFromCenter[2]), fixedAxisLocalCoord[2])>>

normalize(coord) ==
    <<Quot(Num(coord[1]), Frac(options.projectionAreaSize[1], 2)),
      Quot(Num(coord[2]), Frac(options.projectionAreaSize[2], 2))>>

\* mutant: the bounds compared strictly
inProjectionAreaOpen(normCoord) ==
    /\ ~Leq(normCoord[1], Num(0 - 1))
    /\ ~Leq(Num(1), normCoord[1])
    /\ ~Leq(normCoord[2], Num(0 - 1))
    /\ ~Leq(Num(1), normCoord[2])

inProjectionArea(normCoord) ==
    /\ Leq(Num(0 - 1), normCoord[1])
    /\ Leq(normCoord[1], Num(1))
    /\ Leq(Num(0 - 1), normCoord[2])
    /\ Leq(normCoord[2], Num(1))

---------------------------------------------------------------------------
(* bunch *)

RECURSIVE SumAxis(_, _)
SumAxis(buf, i) ==
    IF buf = <<>> THEN 0 ELSE Head(buf)[i] + SumAxis(Tail(buf), i)

\* mutant: the precision count compared strictly
calcBunchAvarageStrict(buf) ==
    [result |-> IF bunchPrecisionCount < Len(buf)
                THEN <<Frac(SumAxis(buf, 1), Len(buf)), Frac(SumAxis(buf, 2), Len(buf))>>
                ELSE null,
     bunchBuffer |-> <<>>]

\* mutant: the buffer cleared only when a centroid is computed
calcBunchAvarageKeep(buf) ==
    IF bunchPrecisionCount <= Len(buf)
    THEN [result |-> <<Frac(SumAxis(buf, 1), Len(buf)), Frac(SumAxis(buf, 2), Len(buf))>>,
          bunchBuffer |-> <<>>]
    ELSE [result |-> null, bunchBuffer |-> buf]

\* mutant: the sums divided by the precision count instead of the length
calcBunchAvarageByCount(buf) ==
    [result |-> IF bunchPrecisionCount <= Len(buf)
                THEN <<Frac(SumAxis(buf, 1), bunchPrecisionCount),
                       Frac(SumAxis(buf, 2), bunchPrecisionCount)>>
                ELSE null,
     bunchBuffer |-> <<>>]

\* returns the result and the buffer it leaves
calcBunchAvarage(buf) ==
    [result |-> IF bunchPrecisionCount <= Len(buf)
                THEN <<Frac(SumAxis(buf, 1), Len(buf)), Frac(SumAxis(buf, 2), Len(buf))>>
                ELSE null,
     bunchBuffer |-> <<>>]

\* mutant: a coordinate outside the area is dropped without flushing
bunchOutOfAreaKeep(buf, prev, coord) ==
    [bunchBuffer |-> buf, prevCoord |-> coord, result |-> null]

\* the branch of a coordinate outside the projection area
bunchOutOfArea(buf, prev, coord) ==
    IF 0 < Len(buf)
    THEN LET avg == calcBunchAvarage(buf)
         IN  [bunchBuffer |-> avg.bunchBuffer, prevCoord |-> coord, result |-> avg.result]
    ELSE [bunchBuffer |-> buf, prevCoord |-> coord, result |-> null]

\* mutant: the first sample flushes the buffer it finds
bunchFirstFlush(buf, prev, coord) ==
    [bunchBuffer |-> <<coord>>, prevCoord |-> coord,
     result |-> IF 0 < Len(buf) THEN calcBunchAvarage(buf).result ELSE null]

\* mutant: the first sample not recorded as the last coordinate
bunchFirstNoPrev(buf, prev, coord) ==
    [bunchBuffer |-> <<coord>>, prevCoord |-> prev, result |-> null]

bunchFirst(buf, prev, coord) ==
    [bunchBuffer |-> <<coord>>, prevCoord |-> coord, result |-> null]

\* mutant: the coordinate pushed before the flush decision
bunchMiddlePushFirst(buf, prev, coord) ==
    LET dx == Abs(prev[1] - coord[1])
        dy == Abs(prev[2] - coord[2])
        pushed == Append(buf, coord)
        avg == IF 0 < Len(buf) /\ (bunchEps < dx \/ bunchEps < dy)
               THEN calcBunchAvarage(pushed)
               ELSE [result |-> null, bunchBuffer |-> pushed]
    IN  [bunchBuffer |-> avg.bunchBuffer, prevCoord |-> coord, result |-> avg.result]

\* mutant: a difference equal to bunchEps breaks the cluster
bunchMiddleInclusive(buf, prev, coord) ==
    LET dx == Abs(prev[1] - coord[1])
        dy == Abs(prev[2] - coord[2])
        avg == IF 0 < Len(buf) /\ (bunchEps <= dx \/ bunchEps <= dy)
               THEN calcBunchAvarage(buf)
               ELSE [result |-> null, bunchBuffer |-> buf]
    IN  [bunchBuffer |-> Append(avg.bunchBuffer, coord), prevCoord |-> coord,
         result |-> avg.result]

\* mutant: only the x difference compared with bunchEps
bunchMiddleXOnly(buf, prev, coord) ==
    LET dx == Abs(prev[1] - coord[1])
        avg == IF 0 < Len(buf) /\ bunchEps < dx
               THEN calcBunchAvarage(buf)
               ELSE [result |-> null, bunchBuffer |-> buf]
    IN  [bunchBuffer |-> Append(avg.bunchBuffer, coord), prevCoord |-> coord,
         result |-> avg.result]

\* mutant: prevCoord compared without testing that the buffer is non-empty
bunchMiddleNoGuard(buf, prev, coord) ==
    LET dx == Abs(prev[1] - coord[1])
        dy == Abs(prev[2] - coord[2])
        avg == IF bunchEps < dx \/ bunchEps < dy
               THEN calcBunchAvarage(buf)
               ELSE [result |-> null, bunchBuffer |-> buf]
    IN  [bunchBuffer |-> Append(avg.bunchBuffer, coord), prevCoord |-> coord,
         result |-> avg.result]

bunchMiddle(buf, prev, coord) ==
    LET dx == Abs(prev[1] - coord[1])
        dy == Abs(prev[2] - coord[2])
        avg == IF 0 < Len(buf) /\ (bunchEps < dx \/ bunchEps < dy)
               THEN calcBunchAvarage(buf)
               ELSE [result |-> null, bunchBuffer |-> buf]
    IN  [bunchBuffer |-> Append(avg.bunchBuffer, coord), prevCoord |-> coord,
         result |-> avg.result]

\* mutant: the last sample pushed before the flush
bunchLastPush(buf, prev, coord) ==
    LET avg == calcBunchAvarage(Append(buf, coord))
    IN  [bunchBuffer |-> avg.bunchBuffer, prevCoord |-> prev, result |-> avg.result]

\* mutant: the last sample flushes without testing that the buffer is non-empty
bunchLastNoGuard(buf, prev, coord) ==
    LET avg == calcBunchAvarage(buf)
    IN  [bunchBuffer |-> avg.bunchBuffer, prevCoord |-> prev, result |-> avg.result]

bunchLast(buf, prev, coord) ==
    IF 0 < Len(buf)
    THEN LET avg == calcBunchAvarage(buf)
         IN  [bunchBuffer |-> avg.bunchBuffer, prevCoord |-> prev, result |-> avg.result]
    ELSE [bunchBuffer |-> buf, prevCoord |-> prev, result |-> null]

\* mutant: the first sample handled before the projection area is tested
bunchFirstBeforeArea(buf, prev, coord, dataPlace) ==
    IF dataPlace = "first" THEN bunchFirst(buf, prev, coord)
    ELSE IF ~inProjectionArea(normalize(coord)) THEN bunchOutOfArea(buf, prev, coord)
    ELSE IF dataPlace = "middle" THEN bunchMiddle(buf, prev, coord)
    ELSE IF dataPlace = "last" THEN bunchLast(buf, prev, coord)
    ELSE [bunchBuffer |-> buf, prevCoord |-> prev, result |-> null]

bunch(buf, prev, coord, dataPlace) ==
    IF ~inProjectionArea(normalize(coord)) THEN bunchOutOfArea(buf, prev, coord)
    ELSE IF dataPlace = "first" THEN bunchFirst(buf, prev, coord)
    ELSE IF dataPlace = "middle" THEN bunchMiddle(buf, prev, coord)
    ELSE IF dataPlace = "last" THEN bunchLast(buf, prev, coord)
    ELSE [bunchBuffer |-> buf, prevCoord |-> prev, result |-> null]

(* bunch with prevCoord = [...coord] added to the last branch of an in-area
   coordinate, so that prevCoord is assigned on every call. *)
bunchVariant(buf, prev, coord, dataPlace) ==
    IF inProjectionArea(normalize(coord)) /\ dataPlace = "last"
    THEN [bunchLast(buf, prev, coord) EXCEPT !.prevCoord = coord]
    ELSE bunch(buf, prev, coord, dataPlace)

---------------------------------------------------------------------------
(* Actions: one per public method *)

config == <<options, sensorAxisRotationMatrix, bunchEps, bunchPrecisionCount>>

BunchCall(coord, dataPlace) ==
    \E r \in {bunch(bunchBuffer, prevCoord, coord, dataPlace)} :
        /\ bunchBuffer' = r.bunchBuffer
        /\ prevCoord' = r.prevCoord
        /\ ret' = r.result
        /\ call' = <<"bunch", coord, dataPlace>>
        /\ prevLength' = Len(bunchBuffer)
        /\ UNCHANGED config

Bunch ==
    \E coord \in Points, dataPlace \in DataPlaces :
        /\ BunchCall(coord, dataPlace)
        /\ Len(bunchBuffer') <= MaxBuf
        /\ UNCHANGED <<hist, variant>>

Convert ==
    \E distance \in Distances, datasLength \in 2..MaxTotal :
        \E dataIndex \in 0..(datasLength - 1) :
            /\ ret' = convert(distance, dataIndex, datasLength)
            /\ call' = <<"convert", distance, dataIndex, datasLength>>
            /\ prevLength' = Len(bunchBuffer)
            /\ UNCHANGED <<config, bunchBuffer, prevCoord, hist, variant>>

\* mutant: normalize remembers its argument as the last coordinate
NormalizeStoring ==
    \E coord \in Points :
        /\ ret' = normalize(coord)
        /\ call' = <<"normalize", coord>>
        /\ prevLength' = Len(bunchBuffer)
        /\ prevCoord' = coord
        /\ UNCHANGED <<config, bunchBuffer, hist, variant>>

Normalize ==
    \E coord \in Points :
        /\ ret' = normalize(coord)
        /\ call' = <<"normalize", coord>>
        /\ prevLength' = Len(bunchBuffer)
        /\ UNCHANGED <<config, bunchBuffer, prevCoord, hist, variant>>

\* called with a normalised coordinate
InProjectionArea ==
    \E coord \in Points :
        /\ ret' = inProjectionArea(normalize(coord))
        /\ call' = <<"inProjectionArea", normalize(coord)>>
        /\ prevLength' = Len(bunchBuffer)
        /\ UNCHANGED <<config, bunchBuffer, prevCoord, hist, variant>>

Next == Bunch \/ Convert \/ Normalize \/ InProjectionArea

Spec == Init /\ [][Next]_vars

NextBunch == Bunch

SpecBunch == InitBunch /\ [][NextBunch]_vars

NextArea == Normalize \/ InProjectionArea

SpecArea == InitArea /\ [][NextArea]_vars

NextConvert == Convert

SpecConvert == InitConvert /\ [][NextConvert]_vars

\* the same call made on the converter and on the one running bunchVariant
BunchBoth ==
    \E coord \in Points, dataPlace \in DataPlaces :
        /\ BunchCall(coord, dataPlace)
        /\ Len(bunchBuffer') <= MaxBuf
        /\ variant' = bunchVariant(variant.bunchBuffer, variant.prevCoord, coord, dataPlace)
        /\ Len(variant'.bunchBuffer) <= MaxBuf
        /\ UNCHANGED hist

NextVariant == BunchBoth

SpecVariant == InitBunch /\ [][NextVariant]_vars

(* A sweep: SweepLen coordinates inside the projection area, each within
   bunchEps (strictly) of the one before on both axes, the first tagged
   first, the last tagged last, the others middle. *)
SweepSample(coord, dataPlace) ==
    /\ inProjectionArea(normalize(coord))
    /\ hist # <<>> =>
           /\ Abs(hist[Len(hist)].coord[1] - coord[1]) < bunchEps
           /\ Abs(hist[Len(hist)].coord[2] - coord[2]) < bunchEps
    /\ BunchCall(coord, dataPlace)
    /\ hist' = Append(hist, [coord |-> coord, result |-> ret'])
    /\ UNCHANGED variant

SweepFirst ==
    \E coord \in Points : Len(hist) = 0 /\ SweepSample(coord, "first")

SweepMiddle ==
    \E coord \in Points :
        1 <= Len(hist) /\ Len(hist) < SweepLen - 1 /\ SweepSample(coord, "middle")

SweepLast ==
    \E coord \in Points : Len(hist) = SweepLen - 1 /\ SweepSample(coord, "last")

NextSweep == SweepFirst \/ SweepMiddle \/ SweepLast

SpecSweep == InitSweep /\ [][NextSweep]_vars

---------------------------------------------------------------------------
(* Properties *)

IsBunch(c) == c[1] = "bunch"

InArea(coord) == inProjectionArea(normalize(coord))

\* |a - b| on one axis exceeds bunchEps on the x or the y axis
ExceedsEps(a, b) ==
    \/ Abs(a[1] - b[1]) > bunchEps
    \/ Abs(a[2] - b[2]) > bunchEps

RECURSIVE ColumnSum(_, _, _)
ColumnSum(buf, axis, n) ==
    IF n = 0 THEN 0 ELSE ColumnSum(buf, axis, n - 1) + buf[n][axis]

\* r is the pair (sum of x / n, sum of y / n) over the n points of buf
IsMeanOf(r, buf) ==
    /\ Len(r) = 2
    /\ buf # <<>>
    /\ \A axis \in 1..2 :
           /\ r[axis][2] > 0
           /\ r[axis][1] * Len(buf) = r[axis][2] * ColumnSum(buf, axis, Len(buf))

\* r is what the precision rule gives on buf: its mean or none
IsPrecisionRuleOf(r, buf) ==
    IF Len(buf) >= bunchPrecisionCount THEN IsMeanOf(r, buf) ELSE r = null

\* the coordinates of the first n samples of the sweep
SweepCoords(n) == [i \in 1..n |-> hist[i].coord]

(* C1, as amended: a sweep of SweepLen near-identical in-area samples fed to
   a fresh converter returns none on every call but the last; the last call
   returns the mean of the samples before it, the last sample left out, when
   bunchPrecisionCount <= SweepLen - 1, and none when bunchPrecisionCount =
   SweepLen. *)
C1_SweepMeanOfBuffered ==
    Len(hist) = SweepLen =>
        /\ \A i \in 1..(SweepLen - 1) : hist[i].result = null
        /\ IF bunchPrecisionCount <= SweepLen - 1
           THEN IsMeanOf(hist[SweepLen].result, SweepCoords(SweepLen - 1))
           ELSE hist[SweepLen].result = null

\* C1 as stated: the last call returns the mean of all SweepLen samples
C1_SweepMeanOfAll ==
    Len(hist) = SweepLen =>
        /\ \A i \in 1..(SweepLen - 1) : hist[i].result = null
        /\ IsMeanOf(hist[SweepLen].result, SweepCoords(SweepLen))

C1_Witness ==
    /\ Len(hist) = SweepLen
    /\ hist[SweepLen].result # null
    /\ hist[1].coord # hist[2].coord
    /\ hist[SweepLen].coord # hist[SweepLen - 1].coord
    /\ bunchPrecisionCount = SweepLen - 1

(* C2: a middle call with an in-area coordinate farther than bunchEps from
   prevCoord on some axis, made on a non-empty buffer, returns the precision
   rule's result on the buffer as it was and leaves the buffer holding the
   coordinate alone. *)
C2_MiddleFlush ==
    [][(/\ IsBunch(call')
        /\ call'[3] = "middle"
        /\ InArea(call'[2])
        /\ bunchBuffer # <<>>
        /\ ExceedsEps(prevCoord, call'[2]))
       => (/\ IsPrecisionRuleOf(ret', bunchBuffer)
           /\ bunchBuffer' = <<call'[2]>>)]_vars

C2_Witness ==
    /\ IsBunch(call)
    /\ call[3] = "middle"
    /\ InArea(call[2])
    /\ prevLength >= 2
    /\ ret # null
    /\ bunchBuffer = <<call[2]>>

(* C3: a call with a coordinate outside the area, whatever its tag, leaves
   the buffer empty and returns the precision rule's result on the buffer
   it found if that was non-empty, none otherwise. *)
C3_OutOfAreaFlush ==
    [][(IsBunch(call') /\ ~InArea(call'[2]))
       => (/\ bunchBuffer' = <<>>
           /\ IF bunchBuffer # <<>>
              THEN IsPrecisionRuleOf(ret', bunchBuffer)
              ELSE ret' = null)]_vars

C3_Witness ==
    /\ IsBunch(call)
    /\ ~InArea(call[2])
    /\ call[3] = "first"
    /\ prevLength >= 2
    /\ ret # null
    /\ bunchBuffer = <<>>

(* C4: a last call with an in-area coordinate leaves the buffer empty and
   returns the precision rule's result on the buffer it found, the incoming
   coordinate not included, or none if that buffer was empty. *)
C4_LastFlush ==
    [][(IsBunch(call') /\ call'[3] = "last" /\ InArea(call'[2]))
       => (/\ bunchBuffer' = <<>>
           /\ IF bunchBuffer # <<>>
              THEN IsPrecisionRuleOf(ret', bunchBuffer)
              ELSE ret' = null)]_vars

C4_Witness ==
    /\ IsBunch(call)
    /\ call[3] = "last"
    /\ InArea(call[2])
    /\ prevLength = 1
    /\ ret # null
    /\ ret # <<Num(call[2][1]), Num(call[2][2])>>
    /\ bunchBuffer = <<>>

(* C5: a first call with an in-area coordinate returns none, leaves the
   buffer holding that coordinate alone and sets prevCoord to it, whatever
   the buffer held. *)
C5_FirstResets ==
    [][(IsBunch(call') /\ call'[3] = "first" /\ InArea(call'[2]))
       => (/\ ret' = null
           /\ bunchBuffer' = <<call'[2]>>
           /\ prevCoord' = call'[2])]_vars

C5_Witness ==
    /\ IsBunch(call)
    /\ call[3] = "first"
    /\ InArea(call[2])
    /\ 1 <= bunchPrecisionCount
    /\ bunchPrecisionCount <= prevLength
    /\ ret = null
    /\ bunchBuffer = <<call[2]>>

\* the call of coord tagged dataPlace flushes the buffer of the current state
Flushes(coord, dataPlace) ==
    /\ bunchBuffer # <<>>
    /\ \/ ~InArea(coord)
       \/ InArea(coord) /\ dataPlace = "middle" /\ ExceedsEps(prevCoord, coord)
       \/ InArea(coord) /\ dataPlace = "last"

(* C6: a call that flushes returns a centroid exactly when the buffer it
   found holds at least bunchPrecisionCount points, and either way nothing
   of that buffer remains: the buffer is left empty, or holding only the
   incoming coordinate of a middle call. *)
C6_FlushClears ==
    [][(IsBunch(call') /\ Flushes(call'[2], call'[3]))
       => (/\ (ret' # null) <=> (Len(bunchBuffer) >= bunchPrecisionCount)
           /\ bunchBuffer' = IF InArea(call'[2]) /\ call'[3] = "middle"
                             THEN <<call'[2]>>
                             ELSE <<>>)]_vars

C6_Witness ==
    /\ IsBunch(call)
    /\ call[3] = "middle"
    /\ InArea(call[2])
    /\ 0 < prevLength
    /\ prevLength < bunchPrecisionCount
    /\ ret = null
    /\ bunchBuffer = <<call[2]>>

(* C7: a centroid returned by bunch is (sum of x / n, sum of y / n) over the
   n points the buffer held when the call began. *)
C7_CentroidIsMean ==
    [][(IsBunch(call') /\ ret' # null) => IsMeanOf(ret', bunchBuffer)]_vars

C7_Witness ==
    /\ IsBunch(call)
    /\ ret # null
    /\ prevLength = 3
    /\ ret[1][2] = 3
    /\ ret[2][2] = 3

\* C8 as stated: after every call to bunch prevCoord is the coordinate passed
C8_PrevCoordIsArgument ==
    IsBunch(call) => prevCoord = call[2]

(* C9: convert, normalize and inProjectionArea change neither bunchBuffer
   nor prevCoord (only bunch does), and what they return is a function of
   their arguments and the configuration. *)
C9_PureMethods ==
    [][/\ ~IsBunch(call') => UNCHANGED <<bunchBuffer, prevCoord>>
       /\ call'[1] = "convert" => ret' = convert(call'[2], call'[3], call'[4])
       /\ call'[1] = "normalize" => ret' = normalize(call'[2])
       /\ call'[1] = "inProjectionArea" => ret' = inProjectionArea(call'[2])
       /\ UNCHANGED config]_vars

C9_Witness ==
    /\ call[1] = "normalize"
    /\ Len(bunchBuffer) = 2
    /\ call[2] # prevCoord

(* C10: inProjectionArea(normalize(p)) is true exactly when |p.x| <= width/2
   and |p.y| <= height/2, the boundary included. *)
C10_InAreaIffWithinHalfSizes ==
    call[1] = "inProjectionArea" =>
        \A p \in Points :
            call[2] = normalize(p) =>
                (ret <=> (/\ 2 * Abs(p[1]) <= options.projectionAreaSize[1]
                          /\ 2 * Abs(p[2]) <= options.projectionAreaSize[2]))

C10_Witness ==
    /\ call[1] = "inProjectionArea"
    /\ call[2] = normalize(<<1, 0>>)
    /\ options.projectionAreaSize = <<2, 3>>
    /\ ret = TRUE

\* the sensor position as a pair of fractions
SensorCoordinate ==
    <<Num(options.sensorCoordinateFromCenter[1]),
      Num(options.sensorCoordinateFromCenter[2])>>

(* C11: for every placement, index and datasLength >= 2, convert of the
   distance 0 returns sensorCoordinateFromCenter. *)
C11_ZeroDistanceIsSensor ==
    (call[1] = "convert" /\ call[2] = 0) => ret = SensorCoordinate

C11_Witness ==
    /\ call = <<"convert", 0, 1, 3>>
    /\ options.sensorPlacement = "top-right"
    /\ options.sensorCoordinateFromCenter = <<-1, 1>>
    /\ ret = <<Num(0 - 1), Num(1)>>

\* the local coordinate (1, 0) turned by the quarter turns of the placement
QuarterTurn(placement) ==
    CASE placement = "bottom-left"  -> <<1, 0>>
      [] placement = "bottom-right" -> <<0, 1>>
      [] placement = "top-right"    -> <<0 - 1, 0>>
      [] placement = "top-left"     -> <<0, 0 - 1>>

(* C12: convert(1000, 0, 2) returns sensorCoordinateFromCenter plus (1, 0)
   for bottom-left, (0, 1) for bottom-right, (-1, 0) for top-right and
   (0, -1) for top-left. *)
C12_QuarterTurns ==
    call = <<"convert", 1000, 0, 2>> =>
        ret = <<Num(options.sensorCoordinateFromCenter[1]
                    + QuarterTurn(options.sensorPlacement)[1]),
                Num(options.sensorCoordinateFromCenter[2]
                    + QuarterTurn(options.sensorPlacement)[2])>>

C12_Witness ==
    /\ call = <<"convert", 1000, 0, 2>>
    /\ options.sensorPlacement = "top-left"
    /\ options.sensorCoordinateFromCenter = <<2, 0 - 1>>
    /\ ret = <<Num(2), Num(0 - 2)>>

(* C13: a middle call with an in-area coordinate, made on an empty buffer
   or with both differences from prevCoord at most bunchEps, returns none
   and appends the coordinate to the buffer. *)
C13_MiddleAppends ==
    [][(/\ IsBunch(call')
        /\ call'[3] = "middle"
        /\ InArea(call'[2])
        /\ (bunchBuffer = <<>> \/ ~ExceedsEps(prevCoord, call'[2])))
       => (/\ ret' = null
           /\ bunchBuffer' = Append(bunchBuffer, call'[2]))]_vars

C13_Witness ==
    /\ IsBunch(call)
    /\ call[3] = "middle"
    /\ InArea(call[2])
    /\ prevLength = 2
    /\ Len(bunchBuffer) = 3
    /\ ret = null
    /\ Abs(bunchBuffer[3][1] - bunchBuffer[2][1]) = bunchEps

(* C14: while the buffer is non-empty prevCoord is its last element, so it
   is neither the initial sentinel nor a coordinate outside the area. *)
C14_PrevCoordIsLastBuffered ==
    bunchBuffer # <<>> =>
        /\ prevCoord = bunchBuffer[Len(bunchBuffer)]
        /\ prevCoord # <<MAX_SAFE_INTEGER, MAX_SAFE_INTEGER>>
        /\ InArea(prevCoord)

C14_Witness ==
    /\ IsBunch(call)
    /\ call[3] = "middle"
    /\ prevLength = 2
    /\ Len(bunchBuffer) = 3
    /\ prevCoord = bunchBuffer[3]
    /\ bunchBuffer[3] # bunchBuffer[1]

(* C16: adjacent points of the buffer differ by at most bunchEps on the x
   axis and on the y axis. *)
C16_AdjacentWithinEps ==
    \A i \in 1..(Len(bunchBuffer) - 1) :
        ~ExceedsEps(bunchBuffer[i], bunchBuffer[i + 1])

C16_Witness ==
    /\ Len(bunchBuffer) = 3
    /\ Abs(bunchBuffer[1][1] - bunchBuffer[2][1]) = bunchEps
    /\ Abs(bunchBuffer[2][2] - bunchBuffer[3][2]) = bunchEps

(* C17: every point of the buffer is inside the projection area. *)
C17_BufferedInArea ==
    \A i \in 1..Len(bunchBuffer) : InArea(bunchBuffer[i])

C17_Witness ==
    /\ Len(bunchBuffer) = 2
    /\ 2 * Abs(bunchBuffer[2][1]) = options.projectionAreaSize[1]
    /\ 2 * Abs(bunchBuffer[1][2]) = options.projectionAreaSize[2]

(* C18: a centroid is returned only by a call that found the buffer
   non-empty, and it is a finite point with |x| <= width/2 and
   |y| <= height/2, also when bunchPrecisionCount is 0. *)
C18_CentroidInArea ==
    (IsBunch(call) /\ ret # null) =>
        /\ prevLength > 0
        /\ \A axis \in 1..2 :
               /\ ret[axis][2] > 0
               /\ 2 * Abs(ret[axis][1]) <= options.projectionAreaSize[axis] * ret[axis][2]

C18_Witness ==
    /\ IsBunch(call)
    /\ bunchPrecisionCount = 0
    /\ prevLength = 1
    /\ ret # null
    /\ 2 * Abs(ret[1][1]) = options.projectionAreaSize[1] * ret[1][2]

(* C15: fed the same calls, bunch and the variant that also assigns
   prevCoord in the in-area last branch return the same result and hold the
   same buffer after every call. *)
C15_VariantEquivalent ==
    /\ variant.result = ret
    /\ variant.bunchBuffer = bunchBuffer

C15_Witness ==
    /\ IsBunch(call)
    /\ call[3] = "last"
    /\ prevLength >= 2
    /\ ret # null
    /\ variant.prevCoord = call[2]
    /\ prevCoord # call[2]

=============================================================================
